---- MODULE Spec2Model ----
(***************************************************************************)
(* Model of alacritty/src/renderer/background.rs: BackgroundRenderer, the  *)
(* background-image layer of the terminal's renderer.                      *)
(*                                                                         *)
(* The renderer's fields, the GL context it drives (binding slots, object  *)
(* stores, uniforms), and the collaborators it calls (image::open,         *)
(* log::warn) are the state; one action per public method.  Every method   *)
(* is run as the list of GL commands the source issues, in source order,   *)
(* through GLApply; the commands of the last call are kept in `calls`.     *)
(*                                                                         *)
(* f32 values are modelled as exact non-negative rationals <<n, d>> in     *)
(* lowest terms, with the IEEE-754 specials the code can produce:          *)
(* <<0, 0>> is NaN and <<1, 0>> is +infinity.  Rounding to 24 bits of      *)
(* mantissa is not modelled.                                               *)
(***************************************************************************)
EXTENDS Integers, Sequences, FiniteSets, TLC

(***************************************************************************)
(* Bounds of the model.                                                    *)
(***************************************************************************)
\* Number of calls of the renderer's API explored after construction.
MaxCalls == 3
\* Number of GL objects of each kind (and programs) owned by other renderers.
MaxForeign == 1

(***************************************************************************)
(* f32 arithmetic.                                                         *)
(***************************************************************************)
RECURSIVE Gcd(_, _)
Gcd(a, b) == IF b = 0 THEN a ELSE Gcd(b, a % b)

NaN == <<0, 0>>
Inf == <<1, 0>>
IsNaN(x) == x = NaN
IsInf(x) == x = Inf
IsZero(x) == x[1] = 0 /\ x[2] # 0

\* The rational n/d (d > 0, n >= 0) in lowest terms.
Rat(n, d) == LET g == Gcd(n, d) IN <<n \div g, d \div g>>

\* `n as f32` for an unsigned integer.
F32(n) == <<n, 1>>

\* f32 division, IEEE-754: x/0 is +inf for x > 0, 0/0 and inf/inf are NaN.
FDiv(x, y) ==
    IF IsNaN(x) \/ IsNaN(y) THEN NaN
    ELSE IF IsInf(y) THEN (IF IsInf(x) THEN NaN ELSE <<0, 1>>)
    ELSE IF IsZero(y) THEN (IF IsZero(x) THEN NaN ELSE Inf)
    ELSE IF IsInf(x) THEN Inf
    ELSE Rat(x[1] * y[2], x[2] * y[1])

\* f32 multiplication, IEEE-754: 0 * inf is NaN.
FMul(x, y) ==
    IF IsNaN(x) \/ IsNaN(y) THEN NaN
    ELSE IF IsInf(x) \/ IsInf(y)
         THEN (IF IsZero(x) \/ IsZero(y) THEN NaN ELSE Inf)
    ELSE Rat(x[1] * y[1], x[2] * y[2])

(***************************************************************************)
(* Option<T>: None is the empty sequence, Some(x) the one-element one.     *)
(***************************************************************************)
None == <<>>
Some(x) == <<x>>
IsSome(o) == o # <<>>
Unwrap(o) == o[1]

(***************************************************************************)
(* The GL context.                                                         *)
(***************************************************************************)
\* Object names of the other renderers sharing the context.
ForeignNames == 1 .. MaxForeign

\* glGen*: an unused name.
FreshName(used) == CHOOSE n \in 1 .. (Cardinality(used) + 1) : n \notin used

\* A texture object as glGenTextures/first bind leaves it (GL defaults).
DefaultTexture ==
    [wrap_s |-> "REPEAT", wrap_t |-> "REPEAT",
     min_filter |-> "NEAREST_MIPMAP_LINEAR", mag_filter |-> "LINEAR",
     image |-> None]

\* The blend function another renderer leaves behind.
ForeignBlend == <<"ONE", "ZERO", "ONE", "ZERO">>

\* The value of a vec3 uniform never written.
ZeroVec == <<F32(0), F32(0), F32(0)>>

\* The binding slots, the image of the texture bound to TEXTURE_2D and the
\* uniforms of the active program: what a command issued now works on.
Bindings(g) ==
    [vertex_array |-> g.vertex_array, array_buffer |-> g.array_buffer,
     texture_2d |-> g.texture_2d, program |-> g.program, blend |-> g.blend,
     image |-> g.textures[g.texture_2d].image,
     uniforms |-> IF g.program \in DOMAIN g.uniforms
                  THEN g.uniforms[g.program] ELSE [l \in {} |-> ZeroVec]]

\* A GL command: its name and its arguments.
Cmd(fn, a) == [fn |-> fn, a |-> a]

\* The effect of one GL command on the context.
GLApply(g, c) ==
    CASE c.fn = "GenVertexArrays" ->
           [g EXCEPT !.vertex_arrays = @ \cup {c.a[1]}]
      [] c.fn = "GenBuffers" ->
           [g EXCEPT !.buffers = @ \cup {c.a[1]}]
      [] c.fn = "GenTextures" ->
           [g EXCEPT !.textures = [n \in DOMAIN @ \cup {c.a[1]} |->
                IF n \in DOMAIN @ THEN @[n] ELSE DefaultTexture]]
      [] c.fn = "BindVertexArray" -> [g EXCEPT !.vertex_array = c.a[1]]
      [] c.fn = "BindBuffer" -> [g EXCEPT !.array_buffer = c.a[2]]
      [] c.fn = "BindTexture" -> [g EXCEPT !.texture_2d = c.a[2]]
      [] c.fn = "UseProgram" -> [g EXCEPT !.program = c.a[1]]
      [] c.fn = "BufferData" ->
           [g EXCEPT !.buffer_data =
                [n \in DOMAIN @ \cup {g.array_buffer} |->
                    IF n = g.array_buffer THEN c.a[2] ELSE @[n]]]
      [] c.fn = "VertexAttribPointer" ->
           [g EXCEPT !.attribs = @ \cup
                {[vao |-> g.vertex_array, buffer |-> g.array_buffer,
                  index |-> c.a[1], size |-> c.a[2],
                  stride |-> c.a[3], offset |-> c.a[4], enabled |-> FALSE]}]
      [] c.fn = "EnableVertexAttribArray" ->
           [g EXCEPT !.attribs =
                {IF at.vao = g.vertex_array /\ at.index = c.a[1]
                    THEN [at EXCEPT !.enabled = TRUE] ELSE at : at \in @}]
      [] c.fn = "TexParameteri" ->
           [g EXCEPT !.textures[g.texture_2d][c.a[2]] = c.a[3]]
      [] c.fn = "TexImage2D" ->
           [g EXCEPT !.textures[g.texture_2d].image =
                Some([width |-> c.a[2], height |-> c.a[3],
                      format |-> c.a[1], pixels |-> c.a[4]])]
      [] c.fn = "BlendFuncSeparate" -> [g EXCEPT !.blend = c.a]
      [] c.fn = "BlendFunc" ->
           [g EXCEPT !.blend = <<c.a[1], c.a[2], c.a[1], c.a[2]>>]
      [] c.fn = "Uniform3f" ->
           \* Writes the active program's uniform; GL_INVALID_OPERATION when no
           \* program is active or the location is not one of its uniforms.
           IF g.program \in DOMAIN g.uniforms
              /\ c.a[1] \in DOMAIN g.uniforms[g.program]
           THEN [g EXCEPT !.uniforms[g.program][c.a[1]] =
                              <<c.a[2], c.a[3], c.a[4]>>]
           ELSE [g EXCEPT !.error = TRUE]
      [] c.fn = "DrawArrays" -> g

\* The context after the commands cs, issued in order.
RECURSIVE GLRun(_, _)
GLRun(g, cs) ==
    IF cs = <<>> THEN g ELSE GLRun(GLApply(g, Head(cs)), Tail(cs))

\* The commands cs, each with the bindings in force when it was issued.
RECURSIVE GLTrace(_, _)
GLTrace(g, cs) ==
    IF cs = <<>> THEN <<>>
    ELSE <<[fn |-> Head(cs).fn, a |-> Head(cs).a, at |-> Bindings(g)]>>
         \o GLTrace(GLApply(g, Head(cs)), Tail(cs))

(***************************************************************************)
(* The collaborators' inputs.                                              *)
(***************************************************************************)
\* The background paths the configuration supplies.
Paths == {"a.png", "b.png"}

\* What image::open can find at a path: a decoded image (its dimensions and
\* its pixel data, named by a letter) ...
Image(w, h, data) == [width |-> w, height |-> h, data |-> data]
NoImage == Image(0, 0, "")
Images ==
    {Image(400, 200, "P"), Image(400, 200, "Q"),
     Image(1600, 800, "R"), Image(1, 3, "S")}

\* ... or an ImageError.
ImageErrors == {"IoError", "Unsupported"}

\* Result<DynamicImage, ImageError>.
Ok(img) == [ok |-> TRUE, img |-> img, err |-> ""]
Err(e) == [ok |-> FALSE, img |-> NoImage, err |-> e]
OpenResults == {Ok(img) : img \in Images} \cup {Err(e) : e \in ImageErrors}

\* SizeInfo::width(), SizeInfo::height() and the opacity of one frame.
Frame(w, h, alpha) == [width |-> w, height |-> h, alpha |-> alpha]
NoFrame == Frame(NaN, NaN, NaN)
Frames ==
    {Frame(F32(800), F32(600), F32(1)),
     Frame(F32(1920), F32(1080), Rat(1, 2)),
     Frame(F32(0), F32(0), F32(1)),
     Frame(F32(0), F32(600), Rat(1, 2)),
     Frame(F32(800), F32(0), F32(1))}

\* The uniform locations the linker may assign to sizeInfo.
Locations == {0, 1}

\* The outcomes of ShaderProgram::new followed by get_uniform_location.
ShaderOutcomes == {"ok", "compile_error", "no_uniform"}

(***************************************************************************)
(* State.                                                                  *)
(***************************************************************************)
VARIABLES
    renderer,     \* Option<BackgroundRenderer>: None until new() returns Ok
    gl,           \* the GL context
    calls,        \* the GL commands of the last call, with their bindings
    last,         \* the last call: method, arguments, return value
    ncalls,       \* number of method calls since construction
    set_calls,    \* number of calls of set_background
    open_calls,   \* number of calls of image::open
    open_errors,  \* number of those that returned Err
    uploads,      \* number of calls of gl::TexImage2D
    warnings,     \* number of calls of log::warn
    loaded,       \* the last image image::open returned, with its path
    last_open     \* the last call of image::open: its path, whether it was Ok

vars == <<renderer, gl, calls, last, ncalls, set_calls, open_calls, open_errors,
          uploads, warnings, loaded, last_open>>

\* Option<BackgroundImage> of a constructed renderer.
background_image == Unwrap(renderer).background_image

Call(op, path, frame, ret) == [op |-> op, path |-> path, frame |-> frame, ret |-> ret]

(***************************************************************************)
(* BackgroundRenderer::new                                                 *)
(***************************************************************************)
vertices ==
    << <<-1, 1, 0, 0>>, <<1, 1, 1, 0>>, <<1, -1, 1, 1>>,
       <<1, -1, 1, 1>>, <<-1, -1, 0, 1>>, <<-1, 1, 0, 0>> >>

\* mem::size_of::<(f32, f32, f32, f32)>() and mem::size_of::<f32>().
SizeOfVertex == 16
SizeOfF32 == 4

\* ShaderProgram::new and get_uniform_location: a linked program `id` whose
\* sizeInfo uniform is at `loc`.
ShaderProgram_new(g, id, loc) ==
    [g EXCEPT !.uniforms = [p \in DOMAIN @ \cup {id} |->
        IF p = id THEN [l \in {loc} |-> ZeroVec] ELSE @[p]]]

\* Mutant of NewCmds: returns with its objects still bound.
NewCmds_NoReset(vao, vbo, texture) ==
    << Cmd("GenVertexArrays", <<vao>>),
       Cmd("GenBuffers", <<vbo>>),
       Cmd("BindVertexArray", <<vao>>),
       Cmd("BindBuffer", <<"ARRAY_BUFFER", vbo>>),
       Cmd("BufferData", <<Len(vertices) * SizeOfVertex, vertices, "STATIC_DRAW">>),
       Cmd("VertexAttribPointer", <<0, 2, SizeOfVertex, 0>>),
       Cmd("EnableVertexAttribArray", <<0>>),
       Cmd("VertexAttribPointer", <<1, 2, SizeOfVertex, SizeOfF32 * 2>>),
       Cmd("EnableVertexAttribArray", <<1>>),
       Cmd("GenTextures", <<texture>>),
       Cmd("BindTexture", <<"TEXTURE_2D", texture>>),
       Cmd("TexParameteri", <<"TEXTURE_2D", "wrap_s", "REPEAT">>),
       Cmd("TexParameteri", <<"TEXTURE_2D", "wrap_t", "REPEAT">>),
       Cmd("TexParameteri", <<"TEXTURE_2D", "min_filter", "NEAREST">>),
       Cmd("TexParameteri", <<"TEXTURE_2D", "mag_filter", "NEAREST">>) >>

\* The GL commands of new(), lines 55-102.
NewCmds(vao, vbo, texture) ==
    << Cmd("GenVertexArrays", <<vao>>),
       Cmd("GenBuffers", <<vbo>>),
       Cmd("BindVertexArray", <<vao>>),
       Cmd("BindBuffer", <<"ARRAY_BUFFER", vbo>>),
       Cmd("BufferData", <<Len(vertices) * SizeOfVertex, vertices, "STATIC_DRAW">>),
       Cmd("VertexAttribPointer", <<0, 2, SizeOfVertex, 0>>),
       Cmd("EnableVertexAttribArray", <<0>>),
       Cmd("VertexAttribPointer", <<1, 2, SizeOfVertex, SizeOfF32 * 2>>),
       Cmd("EnableVertexAttribArray", <<1>>),
       Cmd("GenTextures", <<texture>>),
       Cmd("BindTexture", <<"TEXTURE_2D", texture>>),
       Cmd("TexParameteri", <<"TEXTURE_2D", "wrap_s", "REPEAT">>),
       Cmd("TexParameteri", <<"TEXTURE_2D", "wrap_t", "REPEAT">>),
       Cmd("TexParameteri", <<"TEXTURE_2D", "min_filter", "NEAREST">>),
       Cmd("TexParameteri", <<"TEXTURE_2D", "mag_filter", "NEAREST">>),
       Cmd("BindVertexArray", <<0>>),
       Cmd("BindBuffer", <<"ARRAY_BUFFER", 0>>),
       Cmd("BindTexture", <<"TEXTURE_2D", 0>>) >>

\* Mutant of NewRenderer: constructed with a placeholder image in place.
NewRenderer_Placeholder(vao, program, texture, u_size_info) ==
    [vao |-> vao, u_size_info |-> u_size_info, program |-> program,
     vertices |-> vertices, texture |-> texture,
     background_image |-> Some([path |-> "", height |-> 0, ratio |-> F32(0)])]

\* Line 104: the renderer new() returns.
NewRenderer(vao, program, texture, u_size_info) ==
    [vao |-> vao, u_size_info |-> u_size_info, program |-> program,
     vertices |-> vertices, texture |-> texture, background_image |-> None]

\* Mutant of new: the GL objects are allocated before the shader is built.
new_AllocFirst(g, outcome, loc) ==
    LET vao == FreshName(g.vertex_arrays)
        vbo == FreshName(g.buffers)
        texture == FreshName(DOMAIN g.textures)
        cmds == NewCmds(vao, vbo, texture)
        g1 == GLRun(g, cmds)
        id == FreshName(DOMAIN g.uniforms)
    IN IF outcome = "ok"
       THEN [ret |-> "Ok", self |-> Some(NewRenderer(vao, id, texture, loc)),
             gl |-> ShaderProgram_new(g1, id, loc), trace |-> GLTrace(g, cmds)]
       ELSE [ret |-> "Err", self |-> None, gl |-> g1, trace |-> GLTrace(g, cmds)]

\* The whole function on context g: what it returns, the context it leaves
\* and the GL commands it issued (none when `?` on line 52 or 53 returns the
\* error, which is before the first GL call).
new(g, outcome, loc) ==
    IF outcome = "ok"
    THEN LET id == FreshName(DOMAIN g.uniforms)
             g1 == ShaderProgram_new(g, id, loc)
             vao == FreshName(g.vertex_arrays)
             vbo == FreshName(g.buffers)
             texture == FreshName(DOMAIN g.textures)
             cmds == NewCmds(vao, vbo, texture)
         IN [ret |-> "Ok", self |-> Some(NewRenderer(vao, id, texture, loc)),
             gl |-> GLRun(g1, cmds), trace |-> GLTrace(g1, cmds)]
    ELSE [ret |-> "Err", self |-> None, gl |-> g, trace |-> <<>>]

New(outcome, loc) ==
    /\ renderer = None
    /\ last.op \in {"none", "foreign"}
    /\ LET r == new(gl, outcome, loc)
       IN /\ renderer' = r.self
          /\ gl' = r.gl
          /\ calls' = r.trace
          /\ last' = Call("new", "", NoFrame, r.ret)
    /\ UNCHANGED <<ncalls, set_calls, open_calls, open_errors, uploads, warnings, loaded, last_open>>

(***************************************************************************)
(* BackgroundRenderer::should_draw                                         *)
(***************************************************************************)
\* Mutant of should_draw: false for an image that failed to load.
should_draw_LoadedOnly(self) ==
    IsSome(self.background_image) /\ Unwrap(self.background_image).height # 0

should_draw(self) == IsSome(self.background_image)

ShouldDraw ==
    /\ IsSome(renderer)
    /\ ncalls < MaxCalls
    /\ last' = Call("should_draw", "", NoFrame, should_draw(Unwrap(renderer)))
    /\ calls' = <<>>
    /\ ncalls' = ncalls + 1
    /\ UNCHANGED <<renderer, gl, set_calls, open_calls, open_errors, uploads, warnings, loaded, last_open>>

(***************************************************************************)
(* BackgroundRenderer::set_background                                      *)
(***************************************************************************)
\* Mutants of SamePath: no cache at all; a cache that ignores the path; a
\* cache that retries a path whose decode failed.
SamePath_Never(self, path) == FALSE
SamePath_AnyPath(self, path) == IsSome(self.background_image)
SamePath_RetryFailed(self, path) ==
    /\ IsSome(self.background_image)
    /\ Unwrap(self.background_image).path = path
    /\ Unwrap(self.background_image).height # 0

\* Lines 112-116: the requested path is the recorded one.
SamePath(self, path) ==
    /\ IsSome(self.background_image)
    /\ Unwrap(self.background_image).path = path

\* DynamicImage::into_rgb8: the same dimensions, 3 bytes per pixel.
into_rgb8(img) == [width |-> img.width, height |-> img.height,
                   pixels |-> <<"rgb8", img.data>>]

\* Lines 120-124.
LoadedImage(path, img) ==
    [path |-> path, height |-> img.height,
     ratio |-> FDiv(F32(img.width), F32(img.height))]

\* Mutant of FailedImage: the ratio computed as 0 / 0 instead of set to 0.
FailedImage_ComputedRatio(path) ==
    [path |-> path, height |-> 0, ratio |-> FDiv(F32(0), F32(0))]

\* Mutant of FailedImage: only the ratio is zeroed.
FailedImage_KeepsHeight(path) == [path |-> path, height |-> 1, ratio |-> F32(0)]

\* Lines 145-149.
FailedImage(path) == [path |-> path, height |-> 0, ratio |-> F32(0)]

\* Mutant of UploadCmds: returns with the renderer's texture still bound.
UploadCmds_LeavesBound(self, img) ==
    << Cmd("BindTexture", <<"TEXTURE_2D", self.texture>>),
       Cmd("TexImage2D", <<"RGB", img.width, img.height, img.pixels>>) >>

\* Mutant of UploadCmds: every load allocates a texture of its own.
UploadCmds_NewTexture(self, img) ==
    << Cmd("GenTextures", <<self.texture + 1>>),
       Cmd("BindTexture", <<"TEXTURE_2D", self.texture + 1>>),
       Cmd("TexImage2D", <<"RGB", img.width, img.height, img.pixels>>),
       Cmd("BindTexture", <<"TEXTURE_2D", 0>>) >>

\* Mutant of UploadCmds: uploads to whatever texture is bound.
UploadCmds_NoBind(self, img) ==
    << Cmd("TexImage2D", <<"RGB", img.width, img.height, img.pixels>>),
       Cmd("BindTexture", <<"TEXTURE_2D", 0>>) >>

\* Lines 126-140.
UploadCmds(self, img) ==
    << Cmd("BindTexture", <<"TEXTURE_2D", self.texture>>),
       Cmd("TexImage2D", <<"RGB", img.width, img.height, img.pixels>>),
       Cmd("BindTexture", <<"TEXTURE_2D", 0>>) >>

\* The whole method: the renderer and context it leaves, the GL commands it
\* issued, and its calls of image::open and log::warn.
set_background(self, g, path, res) ==
    IF SamePath(self, path)
    THEN [self |-> self, gl |-> g, cmds |-> <<>>, opened |-> 0, warned |-> 0]
    ELSE IF res.ok
    THEN LET img == into_rgb8(res.img)
             cmds == UploadCmds(self, img)
         IN [self |-> [self EXCEPT !.background_image = Some(LoadedImage(path, img))],
             gl |-> GLRun(g, cmds), cmds |-> cmds, opened |-> 1, warned |-> 0]
    ELSE [self |-> [self EXCEPT !.background_image = Some(FailedImage(path))],
          gl |-> g, cmds |-> <<>>, opened |-> 1, warned |-> 1]

\* The number of commands named fn in a command list.
RECURSIVE Count(_, _)
Count(cs, fn) ==
    IF cs = <<>> THEN 0
    ELSE (IF Head(cs).fn = fn THEN 1 ELSE 0) + Count(Tail(cs), fn)

SetBackground(path, res) ==
    /\ IsSome(renderer)
    /\ ncalls < MaxCalls
    /\ LET r == set_background(Unwrap(renderer), gl, path, res)
       IN /\ renderer' = Some(r.self)
          /\ gl' = r.gl
          /\ calls' = GLTrace(gl, r.cmds)
          /\ open_calls' = open_calls + r.opened
          /\ open_errors' = open_errors + (IF r.opened = 1 /\ ~res.ok THEN 1 ELSE 0)
          /\ uploads' = uploads + Count(r.cmds, "TexImage2D")
          /\ warnings' = warnings + r.warned
          /\ loaded' = IF r.opened = 1 /\ res.ok
                       THEN Some([path |-> path, image |-> into_rgb8(res.img)])
                       ELSE loaded
          /\ last_open' = IF r.opened = 1
                          THEN Some([path |-> path, ok |-> res.ok])
                          ELSE last_open
          /\ last' = Call("set_background", path, NoFrame,
                          IF r.opened = 0 THEN "cached"
                          ELSE IF res.ok THEN "loaded" ELSE res.err)
    /\ ncalls' = ncalls + 1
    /\ set_calls' = set_calls + 1

(***************************************************************************)
(* BackgroundRenderer::update_uniforms and BackgroundRenderer::draw        *)
(***************************************************************************)
\* Mutant of SizeInfoUniform: the horizontal scale without the aspect ratio.
SizeInfoUniform_NoRatio(img, size_info, alpha) ==
    << FDiv(F32(img.height), size_info.width),
       FDiv(F32(img.height), size_info.height),
       alpha >>

\* Lines 183-185: the three components of the uniform.
SizeInfoUniform(img, size_info, alpha) ==
    << FDiv(FMul(img.ratio, F32(img.height)), size_info.width),
       FDiv(F32(img.height), size_info.height),
       alpha >>

\* Mutant of update_uniforms: uploads a zero scale when no image is recorded.
update_uniforms_Always(self, size_info, alpha) ==
    IF IsSome(self.background_image)
    THEN << Cmd("Uniform3f", <<self.u_size_info>>
                \o SizeInfoUniform(Unwrap(self.background_image), size_info, alpha)) >>
    ELSE << Cmd("Uniform3f", <<self.u_size_info, F32(0), F32(0), alpha>>) >>

\* The GL commands of update_uniforms, lines 179-188.
update_uniforms(self, size_info, alpha) ==
    IF IsSome(self.background_image)
    THEN << Cmd("Uniform3f", <<self.u_size_info>>
                \o SizeInfoUniform(Unwrap(self.background_image), size_info, alpha)) >>
    ELSE <<>>

\* Mutant of draw: clears the texture's storage on every frame.
draw_Reupload(self, size, alpha) ==
    << Cmd("BlendFuncSeparate",
           <<"SRC_ALPHA", "ONE_MINUS_SRC_ALPHA", "SRC_ALPHA", "ONE">>),
       Cmd("BindVertexArray", <<self.vao>>),
       Cmd("UseProgram", <<self.program>>),
       Cmd("BindTexture", <<"TEXTURE_2D", self.texture>>),
       Cmd("TexImage2D", <<"RGB", 0, 0, "">>) >>
    \o update_uniforms(self, size, alpha)
    \o << Cmd("DrawArrays", <<"TRIANGLES", 0, Len(self.vertices)>>),
          Cmd("BindTexture", <<"TEXTURE_2D", 0>>),
          Cmd("BindVertexArray", <<0>>),
          Cmd("UseProgram", <<0>>),
          Cmd("BlendFunc", <<"SRC1_COLOR", "ONE_MINUS_SRC1_COLOR">>) >>

\* Mutant of draw: the uniform is uploaded before the program is activated.
draw_UniformFirst(self, size, alpha) ==
    update_uniforms(self, size, alpha)
    \o << Cmd("BlendFuncSeparate",
              <<"SRC_ALPHA", "ONE_MINUS_SRC_ALPHA", "SRC_ALPHA", "ONE">>),
          Cmd("BindVertexArray", <<self.vao>>),
          Cmd("UseProgram", <<self.program>>),
          Cmd("BindTexture", <<"TEXTURE_2D", self.texture>>),
          Cmd("DrawArrays", <<"TRIANGLES", 0, Len(self.vertices)>>),
          Cmd("BindTexture", <<"TEXTURE_2D", 0>>),
          Cmd("BindVertexArray", <<0>>),
          Cmd("UseProgram", <<0>>),
          Cmd("BlendFunc", <<"SRC1_COLOR", "ONE_MINUS_SRC1_COLOR">>) >>

\* Mutant of draw: returns without unbinding or resetting the blend function.
draw_NoReset(self, size, alpha) ==
    << Cmd("BlendFuncSeparate",
           <<"SRC_ALPHA", "ONE_MINUS_SRC_ALPHA", "SRC_ALPHA", "ONE">>),
       Cmd("BindVertexArray", <<self.vao>>),
       Cmd("UseProgram", <<self.program>>),
       Cmd("BindTexture", <<"TEXTURE_2D", self.texture>>) >>
    \o update_uniforms(self, size, alpha)
    \o << Cmd("DrawArrays", <<"TRIANGLES", 0, Len(self.vertices)>>) >>

\* The GL commands of draw, lines 155-175.
draw(self, size, alpha) ==
    << Cmd("BlendFuncSeparate",
           <<"SRC_ALPHA", "ONE_MINUS_SRC_ALPHA", "SRC_ALPHA", "ONE">>),
       Cmd("BindVertexArray", <<self.vao>>),
       Cmd("UseProgram", <<self.program>>),
       Cmd("BindTexture", <<"TEXTURE_2D", self.texture>>) >>
    \o update_uniforms(self, size, alpha)
    \o << Cmd("DrawArrays", <<"TRIANGLES", 0, Len(self.vertices)>>),
          Cmd("BindTexture", <<"TEXTURE_2D", 0>>),
          Cmd("BindVertexArray", <<0>>),
          Cmd("UseProgram", <<0>>),
          Cmd("BlendFunc", <<"SRC1_COLOR", "ONE_MINUS_SRC1_COLOR">>) >>

UpdateUniforms(f) ==
    /\ IsSome(renderer)
    /\ ncalls < MaxCalls
    /\ LET cmds == update_uniforms(Unwrap(renderer), f, f.alpha)
       IN /\ gl' = GLRun(gl, cmds)
          /\ calls' = GLTrace(gl, cmds)
    /\ last' = Call("update_uniforms", "", f, "")
    /\ ncalls' = ncalls + 1
    /\ UNCHANGED <<renderer, set_calls, open_calls, open_errors, uploads, warnings, loaded, last_open>>

Draw(f) ==
    /\ IsSome(renderer)
    /\ ncalls < MaxCalls
    /\ LET cmds == draw(Unwrap(renderer), f, f.alpha)
       IN /\ gl' = GLRun(gl, cmds)
          /\ calls' = GLTrace(gl, cmds)
    /\ last' = Call("draw", "", f, "")
    /\ ncalls' = ncalls + 1
    /\ UNCHANGED <<renderer, set_calls, open_calls, open_errors, uploads, warnings, loaded, last_open>>

(***************************************************************************)
(* The rest of the rendering pipeline, sharing the context: it leaves its  *)
(* own objects bound and its own blend function set.                       *)
(***************************************************************************)
ForeignRender(k) ==
    /\ gl' = [gl EXCEPT !.vertex_array = k, !.array_buffer = k,
                        !.texture_2d = k, !.program = k, !.blend = ForeignBlend]
    /\ gl' # gl
    /\ last' = Call("foreign", "", NoFrame, "")
    /\ calls' = <<>>
    /\ UNCHANGED <<renderer, ncalls, set_calls, open_calls, open_errors, uploads, warnings, loaded, last_open>>

(***************************************************************************)
(* Specification.                                                          *)
(***************************************************************************)
\* A fresh context: the other renderers' objects exist, nothing is bound.
InitGL ==
    [vertex_arrays |-> ForeignNames,
     buffers |-> ForeignNames,
     textures |-> [n \in {0} \cup ForeignNames |-> DefaultTexture],
     uniforms |-> [p \in ForeignNames |-> [l \in {0} |-> ZeroVec]],
     buffer_data |-> [n \in {} |-> <<>>],
     attribs |-> {},
     vertex_array |-> 0, array_buffer |-> 0, texture_2d |-> 0, program |-> 0,
     blend |-> <<"ONE", "ZERO", "ONE", "ZERO">>,
     error |-> FALSE]

Init ==
    /\ renderer = None
    /\ gl = InitGL
    /\ calls = <<>>
    /\ last = Call("none", "", NoFrame, "")
    /\ ncalls = 0
    /\ set_calls = 0
    /\ open_calls = 0
    /\ open_errors = 0
    /\ uploads = 0
    /\ warnings = 0
    /\ loaded = None
    /\ last_open = None

Next ==
    \/ \E outcome \in ShaderOutcomes, loc \in Locations : New(outcome, loc)
    \/ \E path \in Paths, res \in OpenResults : SetBackground(path, res)
    \/ ShouldDraw
    \/ \E f \in Frames : Draw(f)
    \/ \E f \in Frames : UpdateUniforms(f)
    \/ \E k \in ForeignNames : ForeignRender(k)

Spec == Init /\ [][Next]_vars

(***************************************************************************)
(* Vocabulary of the properties below.                                     *)
(***************************************************************************)
\* currentImage of the specification (None before construction).
CurrentImage == IF IsSome(renderer) THEN background_image ELSE None

\* currentImage is present and its recorded path is p.
Recorded(p) == IsSome(CurrentImage) /\ Unwrap(CurrentImage).path = p

\* The path of the last call is the recorded one.
LastPathRecorded == Recorded(last.path)

\* The failure sentinel for path p.
Sentinel(p) == [path |-> p, height |-> 0, ratio |-> <<0, 1>>]
IsSentinel(img) == img.height = 0 /\ img.ratio = <<0, 1>>

\* The contents of the renderer's own texture object.
TextureImage == gl.textures[Unwrap(renderer).texture].image

\* The texture contents an upload of RGB8 image img leaves.
Uploaded(img) ==
    Some([width |-> img.width, height |-> img.height,
          format |-> "RGB", pixels |-> img.pixels])

\* The elements of a sequence.
Range(q) == {q[i] : i \in 1..Len(q)}

\* This step is a call of the named method.
StepOf(op) == ncalls' = ncalls + 1 /\ last'.op = op

\* The Uniform3f commands of the last call.
UniformCalls == SelectSeq(calls, LAMBDA c : c.fn = "Uniform3f")

\* x is the f32 quotient of the rational n/d by the viewport dimension w.
IsQuotient(x, n, d, w) ==
    IF w[1] = 0 THEN x = (IF n = 0 THEN <<0, 0>> ELSE <<1, 0>>)
    ELSE /\ x[2] > 0
         /\ x[1] * d * w[1] = x[2] * n * w[2]

\* The names of the commands the last call issued, in order.
Order == [i \in 1..Len(calls) |-> calls[i].fn]

\* Command c was issued with the renderer's own program, texture and vertex
\* array current.
OwnObjectsCurrent(c) ==
    /\ c.at.program = Unwrap(renderer).program
    /\ c.at.texture_2d = Unwrap(renderer).texture
    /\ c.at.vertex_array = Unwrap(renderer).vao

\* The DrawArrays commands of the last call.
DrawCalls == SelectSeq(calls, LAMBDA c : c.fn = "DrawArrays")

\* Exactly one draw call, 6 vertices as triangles, on the renderer's objects.
OneDrawCall ==
    /\ Len(DrawCalls) = 1
    /\ DrawCalls[1].a = <<"TRIANGLES", 0, 6>>
    /\ Len(Unwrap(renderer).vertices) = 6
    /\ DrawCalls[1].at.vertex_array = Unwrap(renderer).vao
    /\ DrawCalls[1].at.program = Unwrap(renderer).program
    /\ DrawCalls[1].at.texture_2d = Unwrap(renderer).texture

\* The draw call sees the last successfully loaded image, or no storage.
DrawsStaleTexture ==
    DrawCalls[1].at.image =
        IF loaded = None THEN None ELSE Uploaded(Unwrap(loaded).image)

(***************************************************************************)
(* C1.  In every reachable state where currentImage is present and its     *)
(* recorded path is the requested path p (a successful load or the         *)
(* failure sentinel), set_background(p) makes no decode attempt, no        *)
(* texture upload, no warning and no GL call, and leaves currentImage,     *)
(* the textures and every GL binding unchanged.                            *)
(***************************************************************************)
C1_SamePathIsNoOp ==
    [][(StepOf("set_background") /\ Recorded(last'.path))
         => /\ open_calls' = open_calls
            /\ uploads' = uploads
            /\ warnings' = warnings
            /\ calls' = <<>>
            /\ renderer' = renderer
            /\ gl' = gl
            /\ loaded' = loaded]_vars

\* set_background(p) was just called with the failure sentinel of p recorded.
C1_Witness ==
    /\ last.op = "set_background"
    /\ last.ret = "cached"
    /\ Recorded(last.path)
    /\ IsSentinel(Unwrap(CurrentImage))

(***************************************************************************)
(* C2.  Over any sequence of set_background calls, image::open is called   *)
(* exactly by the calls whose path differs from the recorded one (or when  *)
(* nothing is recorded), and TexImage2D exactly by those of them whose     *)
(* decode succeeds, once each; after the call the path is the recorded     *)
(* one, so that the same path again decodes nothing and another path       *)
(* decodes once more, also one that was loaded earlier.                    *)
(***************************************************************************)
C2_DecodeOncePerPathChange ==
    [][StepOf("set_background")
         => /\ open_calls' = open_calls + (IF Recorded(last'.path) THEN 0 ELSE 1)
            /\ uploads' = uploads
                 + (IF ~Recorded(last'.path) /\ last'.ret = "loaded" THEN 1 ELSE 0)
            /\ (last'.ret = "cached") = Recorded(last'.path)
            /\ LastPathRecorded']_vars

\* a.png loaded, then b.png, then a.png again: three decodes, three uploads.
C2_Witness ==
    /\ set_calls = 3
    /\ open_calls = 3
    /\ uploads = 3
    /\ last.op = "set_background"
    /\ last.path = "a.png"

(***************************************************************************)
(* C3.  A set_background(p) whose decode fails emits exactly one warning   *)
(* and returns normally, recording p; a following set_background(p) with   *)
(* that sentinel recorded emits no warning and decodes nothing; the        *)
(* number of warnings always equals the number of failed decodes.          *)
(***************************************************************************)
C3_OneWarningPerFailedDecode ==
    [][StepOf("set_background")
         => /\ last'.ret \in ImageErrors
                 => /\ warnings' = warnings + 1
                    /\ open_errors' = open_errors + 1
                    /\ IsSome(renderer')
                    /\ LastPathRecorded'
            /\ last'.ret \notin ImageErrors => warnings' = warnings
            /\ (Recorded(last'.path) /\ IsSentinel(Unwrap(CurrentImage)))
                 => /\ warnings' = warnings
                    /\ open_calls' = open_calls
            /\ warnings' = open_errors']_vars

\* A failed path was requested twice more: still one warning, one decode.
C3_Witness ==
    /\ set_calls = 3
    /\ warnings = 1
    /\ open_calls = 1
    /\ open_errors = 1
    /\ last.ret = "cached"

(***************************************************************************)
(* C4.  When set_background(p) is called with p not the recorded path and  *)
(* the decode fails, currentImage becomes exactly the failure sentinel     *)
(* {p, 0, 0}, there is no texture upload, and every texture holds what it  *)
(* held before: the renderer's own holds the last successfully decoded     *)
(* image, or no storage if there was none.                                 *)
(***************************************************************************)
C4_FailureRecordsSentinelKeepsTexture ==
    [][(StepOf("set_background") /\ last'.ret \in ImageErrors)
         => /\ ~Recorded(last'.path)
            /\ CurrentImage' = Some(Sentinel(last'.path))
            /\ uploads' = uploads
            /\ Count(calls', "TexImage2D") = 0
            /\ gl'.textures = gl.textures
            /\ TextureImage' = IF loaded' = None THEN None
                               ELSE Uploaded(Unwrap(loaded').image)]_vars

\* A decode failed after another path had been loaded: the texture is stale.
C4_Witness ==
    /\ last.op = "set_background"
    /\ last.ret \in ImageErrors
    /\ IsSome(loaded)
    /\ Unwrap(loaded).path # last.path
    /\ TextureImage = Uploaded(Unwrap(loaded).image)

(***************************************************************************)
(* C5.  In every state between calls, if currentImage is present and not   *)
(* the failure sentinel, the texture holds the pixels, at the dimensions,  *)
(* of the image decoded from currentImage.path, and currentImage.height    *)
(* and ratio are that image's height and width / height.                   *)
(***************************************************************************)
C5_TextureMatchesCurrentImage ==
    (IsSome(CurrentImage) /\ Unwrap(CurrentImage).height # 0)
      => /\ IsSome(loaded)
         /\ Unwrap(loaded).path = Unwrap(CurrentImage).path
         /\ TextureImage = Uploaded(Unwrap(loaded).image)
         /\ Unwrap(CurrentImage).height = Unwrap(loaded).image.height
         /\ Unwrap(CurrentImage).ratio[2] > 0
         /\ Unwrap(CurrentImage).ratio[1] * Unwrap(loaded).image.height
              = Unwrap(CurrentImage).ratio[2] * Unwrap(loaded).image.width

\* A second image replaced the first and a frame was drawn since.
C5_Witness ==
    /\ last.op = "draw"
    /\ uploads = 2
    /\ IsSome(CurrentImage)
    /\ Unwrap(CurrentImage).height = 3
    /\ TextureImage =
         Some([width |-> 1, height |-> 3, format |-> "RGB", pixels |-> <<"rgb8", "S">>])

(***************************************************************************)
(* C6.  should_draw() returns false right after new() and in every state   *)
(* before the first set_background call; after any set_background call,    *)
(* decode successful or not, it returns true, and so in every later state. *)
(***************************************************************************)
C6_ShouldDrawIffSetBackgroundCalled ==
    /\ IsSome(renderer) => (should_draw(Unwrap(renderer)) <=> set_calls > 0)
    /\ last.op = "should_draw" => (last.ret <=> set_calls > 0)
    /\ (last.op = "new" /\ last.ret = "Ok") => ~should_draw(Unwrap(renderer))

\* should_draw() returned true with the failure sentinel recorded.
C6_Witness ==
    /\ last.op = "should_draw"
    /\ last.ret = TRUE
    /\ IsSentinel(Unwrap(CurrentImage))

(***************************************************************************)
(* C7, as stated: in every state reached before any set_background call    *)
(* whose decode succeeded, currentImage is absent.                         *)
(***************************************************************************)
C7_AbsentUntilFirstSuccess ==
    (IsSome(renderer) /\ loaded = None) => CurrentImage = None

(***************************************************************************)
(* C7, amended: currentImage is absent until the first set_background      *)
(* call, successful or not: it is absent in every state reached before any *)
(* set_background call and present in every state after one, and while no  *)
(* decode has succeeded it is the failure sentinel.                        *)
(***************************************************************************)
C7_AbsentUntilFirstCall ==
    IsSome(renderer)
      => /\ CurrentImage = None <=> set_calls = 0
         /\ (set_calls > 0 /\ loaded = None) => IsSentinel(Unwrap(CurrentImage))

\* The first set_background call failed: currentImage is present.
C7_Witness ==
    /\ set_calls = 1
    /\ loaded = None
    /\ last.op = "set_background"
    /\ CurrentImage = Some(Sentinel(last.path))

(***************************************************************************)
(* C8.  With currentImage present, draw and update_uniforms upload the     *)
(* uniform (ratio * height / viewport width, height / viewport height,     *)
(* opacity), from the metadata set_background last wrote and the viewport  *)
(* of this call, in f32 arithmetic (x / 0 is infinite, 0 / 0 is NaN).      *)
(* A 400x200 image, viewport 800x600, opacity 1 gives (1/2, 1/3, 1);       *)
(* height 800, ratio 2, viewport 1920x1080, opacity 1/2 gives              *)
(* (5/6, 20/27, 1/2).                                                      *)
(***************************************************************************)
C8_UniformIsScaledSize ==
    (last.op \in {"draw", "update_uniforms"} /\ IsSome(CurrentImage))
      => LET img == Unwrap(CurrentImage)
             f == last.frame
         IN /\ Len(UniformCalls) = 1
            /\ LET a == UniformCalls[1].a
               IN /\ a[1] = Unwrap(renderer).u_size_info
                  /\ IsQuotient(a[2], img.ratio[1] * img.height, img.ratio[2], f.width)
                  /\ IsQuotient(a[3], img.height, 1, f.height)
                  /\ a[4] = f.alpha
                  /\ (img.height = 200 /\ img.ratio = <<2, 1>>
                        /\ f = [width |-> <<800, 1>>, height |-> <<600, 1>>, alpha |-> <<1, 1>>])
                       => <<a[2], a[3], a[4]>> = << <<1, 2>>, <<1, 3>>, <<1, 1>> >>
                  /\ (img.height = 800 /\ img.ratio = <<2, 1>>
                        /\ f = [width |-> <<1920, 1>>, height |-> <<1080, 1>>, alpha |-> <<1, 2>>])
                       => <<a[2], a[3], a[4]>> = << <<5, 6>>, <<20, 27>>, <<1, 2>> >>
                  /\ last.op = "draw"
                       => gl.uniforms[Unwrap(renderer).program][a[1]] = <<a[2], a[3], a[4]>>

\* A 1600x800 image drawn into a 1920x1080 viewport at opacity 1/2.
C8_Witness ==
    /\ last.op = "draw"
    /\ IsSome(CurrentImage)
    /\ Unwrap(CurrentImage).height = 800
    /\ last.frame = [width |-> <<1920, 1>>, height |-> <<1080, 1>>, alpha |-> <<1, 2>>]
    /\ gl.uniforms[Unwrap(renderer).program][Unwrap(renderer).u_size_info]
         = << <<5, 6>>, <<20, 27>>, <<1, 2>> >>

(***************************************************************************)
(* C9, as stated: for the failure sentinel the uniform draw and            *)
(* update_uniforms compute is (0, 0, opacity) for every viewport,          *)
(* including one of zero width or zero height.                             *)
(***************************************************************************)
C9_SentinelUniformIsZero ==
    (/\ last.op \in {"draw", "update_uniforms"}
     /\ IsSome(CurrentImage)
     /\ IsSentinel(Unwrap(CurrentImage)))
      => /\ Len(UniformCalls) = 1
         /\ UniformCalls[1].a =
              <<Unwrap(renderer).u_size_info, <<0, 1>>, <<0, 1>>, last.frame.alpha>>

\* What holds of the code: (0, 0, opacity) for viewports of non-zero width
\* and height; a zero dimension makes its component 0 / 0, NaN.
C9_SentinelUniformNonZeroViewport ==
    (/\ last.op \in {"draw", "update_uniforms"}
     /\ IsSome(CurrentImage)
     /\ IsSentinel(Unwrap(CurrentImage)))
      => /\ Len(UniformCalls) = 1
         /\ LET a == UniformCalls[1].a
                f == last.frame
            IN /\ a[2] = IF f.width[1] = 0 THEN <<0, 0>> ELSE <<0, 1>>
               /\ a[3] = IF f.height[1] = 0 THEN <<0, 0>> ELSE <<0, 1>>
               /\ a[4] = f.alpha

(***************************************************************************)
(* C10, as stated: every draw issues exactly one draw call over the 6      *)
(* fixed vertices as triangles, in every state; with the failure sentinel  *)
(* recorded the draw call is issued with the zero uniform and with the     *)
(* texture holding the last successfully loaded image (or no storage).     *)
(***************************************************************************)
C10_DrawIssuesOneDrawCall ==
    last.op = "draw"
      => /\ OneDrawCall
         /\ (IsSome(CurrentImage) /\ IsSentinel(Unwrap(CurrentImage)))
              => /\ DrawCalls[1].at.uniforms[Unwrap(renderer).u_size_info]
                      = << <<0, 1>>, <<0, 1>>, last.frame.alpha >>
                 /\ DrawsStaleTexture

\* What holds of the code: the same, the uniform being zero only where the
\* viewport has no zero dimension (C9).
C10_DrawIssuesOneDrawCallNonZeroViewport ==
    last.op = "draw"
      => /\ OneDrawCall
         /\ (IsSome(CurrentImage) /\ IsSentinel(Unwrap(CurrentImage)))
              => /\ (last.frame.width[1] # 0 /\ last.frame.height[1] # 0)
                      => DrawCalls[1].at.uniforms[Unwrap(renderer).u_size_info]
                           = << <<0, 1>>, <<0, 1>>, last.frame.alpha >>
                 /\ DrawsStaleTexture

(***************************************************************************)
(* C11.  After draw returns, whatever was bound and whatever the blend     *)
(* function was before the call, the 2D texture binding, the vertex-array  *)
(* binding and the active program are 0 and the blend function is          *)
(* (SRC1_COLOR, ONE_MINUS_SRC1_COLOR); the draw call itself is issued      *)
(* under (SRC_ALPHA, ONE_MINUS_SRC_ALPHA) for colour and (SRC_ALPHA, ONE)  *)
(* for alpha.                                                              *)
(***************************************************************************)
C11_DrawLeavesContextUnbound ==
    last.op = "draw"
      => /\ gl.texture_2d = 0
         /\ gl.vertex_array = 0
         /\ gl.program = 0
         /\ gl.blend = <<"SRC1_COLOR", "ONE_MINUS_SRC1_COLOR",
                         "SRC1_COLOR", "ONE_MINUS_SRC1_COLOR">>
         /\ Len(DrawCalls) = 1
         /\ DrawCalls[1].at.blend =
              <<"SRC_ALPHA", "ONE_MINUS_SRC_ALPHA", "SRC_ALPHA", "ONE">>

\* draw was called with another renderer's objects bound and blend set.
C11_Witness ==
    /\ last.op = "draw"
    /\ calls[1].at.texture_2d \in ForeignNames
    /\ calls[1].at.vertex_array \in ForeignNames
    /\ calls[1].at.program \in ForeignNames
    /\ calls[1].at.blend = ForeignBlend
    /\ gl.program = 0

(***************************************************************************)
(* C12, as stated: update_uniforms called on its own, outside draw, with   *)
(* a background configured (the background program is then not the active  *)
(* program) leaves the (scaleX, scaleY, opacity) of that viewport and      *)
(* opacity in the background program's sizeInfo uniform, and writes no     *)
(* other program's uniforms.                                               *)
(***************************************************************************)
C12_StandaloneUpdateSetsOwnUniform ==
    [][(/\ StepOf("update_uniforms")
        /\ IsSome(CurrentImage)
        /\ gl.program # Unwrap(renderer).program)
         => /\ Len(calls') = 1
            /\ gl'.uniforms[Unwrap(renderer).program][Unwrap(renderer).u_size_info]
                 = <<calls'[1].a[2], calls'[1].a[3], calls'[1].a[4]>>
            /\ \A p \in DOMAIN gl.uniforms \ {Unwrap(renderer).program} :
                 gl'.uniforms[p] = gl.uniforms[p]]_vars

\* What holds of the code: gl::Uniform3f addresses the active program.  The
\* background program's uniform keeps its value; with no program active, or
\* one without a uniform at that location, the call raises a GL error and
\* writes nothing; otherwise it overwrites the active program's uniform.
C12_StandaloneUpdateWritesActiveProgram ==
    [][(/\ StepOf("update_uniforms")
        /\ IsSome(CurrentImage)
        /\ gl.program # Unwrap(renderer).program)
         => LET self == Unwrap(renderer)
                a == calls'[1].a
            IN /\ Len(calls') = 1
               /\ gl'.uniforms[self.program] = gl.uniforms[self.program]
               /\ IF gl.program \in DOMAIN gl.uniforms
                     /\ self.u_size_info \in DOMAIN gl.uniforms[gl.program]
                  THEN gl'.uniforms[gl.program][self.u_size_info] = <<a[2], a[3], a[4]>>
                  ELSE gl'.error /\ gl'.uniforms = gl.uniforms]_vars

(***************************************************************************)
(* C13.  When new() returns Ok, the vertex-array binding, the array-buffer *)
(* binding and the 2D texture binding are 0, the texture has been          *)
(* allocated with REPEAT wrap on both axes and NEAREST min/mag filters but *)
(* no pixel storage, and currentImage is absent.                           *)
(***************************************************************************)
C13_NewLeavesContextUnbound ==
    (last.op = "new" /\ last.ret = "Ok")
      => /\ IsSome(renderer)
         /\ gl.vertex_array = 0
         /\ gl.array_buffer = 0
         /\ gl.texture_2d = 0
         /\ Unwrap(renderer).texture \in DOMAIN gl.textures
         /\ gl.textures[Unwrap(renderer).texture] =
              [wrap_s |-> "REPEAT", wrap_t |-> "REPEAT",
               min_filter |-> "NEAREST", mag_filter |-> "NEAREST",
               image |-> <<>>]
         /\ CurrentImage = None

\* new() returned Ok after another renderer had left its objects bound.
C13_Witness ==
    /\ last.op = "new"
    /\ last.ret = "Ok"
    /\ calls[1].at.vertex_array \in ForeignNames
    /\ calls[1].at.array_buffer \in ForeignNames
    /\ calls[1].at.texture_2d \in ForeignNames

(***************************************************************************)
(* C14.  If the shader fails to compile or link, or the linked program has *)
(* no sizeInfo uniform, new() returns the error and constructs no          *)
(* renderer; on that path no GL command has been issued: no vertex array,  *)
(* buffer or texture is allocated and no binding is touched.               *)
(***************************************************************************)
C14_ShaderFailureAbortsBeforeGL ==
    [][(last.op # "new" /\ last'.op = "new" /\ last'.ret = "Err")
         => /\ renderer' = None
            /\ calls' = <<>>
            /\ gl'.vertex_arrays = gl.vertex_arrays
            /\ gl'.buffers = gl.buffers
            /\ DOMAIN gl'.textures = DOMAIN gl.textures
            /\ Bindings(gl') = Bindings(gl)
            /\ gl' = gl]_vars

\* new() failed with another renderer's objects bound: they still are.
C14_Witness ==
    /\ last.op = "new"
    /\ last.ret = "Err"
    /\ renderer = None
    /\ gl.vertex_array \in ForeignNames
    /\ gl.texture_2d \in ForeignNames

(***************************************************************************)
(* C15.  The commands of one draw are, in this order: set the blend        *)
(* function, bind the vertex array, activate the background program, bind  *)
(* the texture, upload the uniform (when a background is recorded), issue  *)
(* the draw call, unbind texture, vertex array and program, reset the      *)
(* blend function.  The uniform upload and the draw call are both issued   *)
(* while the background program is active and the renderer's own texture   *)
(* and vertex array are bound.                                             *)
(***************************************************************************)
C15_DrawStepOrder ==
    last.op = "draw"
      => /\ Order = << "BlendFuncSeparate", "BindVertexArray", "UseProgram",
                       "BindTexture" >>
                    \o (IF IsSome(CurrentImage) THEN << "Uniform3f" >> ELSE << >>)
                    \o << "DrawArrays", "BindTexture", "BindVertexArray",
                          "UseProgram", "BlendFunc" >>
         /\ \A i \in 1..Len(calls) :
              calls[i].fn \in {"Uniform3f", "DrawArrays"}
                => OwnObjectsCurrent(calls[i])
         /\ calls[2].a = << Unwrap(renderer).vao >>
         /\ calls[3].a = << Unwrap(renderer).program >>
         /\ calls[4].a = << "TEXTURE_2D", Unwrap(renderer).texture >>
         /\ calls[Len(calls) - 3].a = << "TEXTURE_2D", 0 >>
         /\ calls[Len(calls) - 2].a = << 0 >>
         /\ calls[Len(calls) - 1].a = << 0 >>

\* A draw with a background recorded, entered with foreign objects bound:
\* all ten commands are issued.
C15_Witness ==
    /\ last.op = "draw"
    /\ IsSome(CurrentImage)
    /\ Len(calls) = 10
    /\ calls[1].at.program \in ForeignNames
    /\ calls[1].at.texture_2d \in ForeignNames
    /\ calls[5].fn = "Uniform3f"
    /\ calls[6].fn = "DrawArrays"

(***************************************************************************)
(* C16.  With currentImage absent, update_uniforms issues no GL command    *)
(* and changes nothing in the context; draw issues no uniform upload, so   *)
(* every program's uniforms keep their values, and still issues its four   *)
(* set-up commands, its one draw call on the renderer's objects, and its   *)
(* four reset commands.                                                    *)
(***************************************************************************)
C16_NoImageNoUpload ==
    [][/\ (CurrentImage = None /\ StepOf("update_uniforms"))
            => /\ calls' = <<>>
               /\ gl' = gl
       /\ (CurrentImage = None /\ StepOf("draw"))
            => /\ Count(calls', "Uniform3f") = 0
               /\ gl'.uniforms = gl.uniforms
               /\ Len(calls') = 9
               /\ calls'[2].a = << Unwrap(renderer).vao >>
               /\ calls'[3].a = << Unwrap(renderer).program >>
               /\ calls'[4].a = << "TEXTURE_2D", Unwrap(renderer).texture >>
               /\ calls'[5].fn = "DrawArrays"
               /\ calls'[5].at.program = Unwrap(renderer).program
               /\ calls'[5].at.texture_2d = Unwrap(renderer).texture
               /\ calls'[5].at.vertex_array = Unwrap(renderer).vao
               /\ calls'[6].a = << "TEXTURE_2D", 0 >>
               /\ calls'[7].a = << 0 >>
               /\ calls'[8].a = << 0 >>
               /\ gl'.program = 0 /\ gl'.texture_2d = 0 /\ gl'.vertex_array = 0]_vars

\* A draw before any set_background call: nine commands, none an upload.
C16_Witness ==
    /\ last.op = "draw"
    /\ IsSome(renderer)
    /\ CurrentImage = None
    /\ Len(calls) = 9
    /\ UniformCalls = <<>>
    /\ Len(DrawCalls) = 1

(***************************************************************************)
(* C17.  A draw, update_uniforms or should_draw call leaves the renderer   *)
(* (so currentImage's path, height and ratio) and every texture's pixel    *)
(* contents unchanged, opens no image, logs no warning, uploads no pixels, *)
(* and returns no error; draw raises no GL error either.  Conversely a     *)
(* step that changes currentImage or the texture's contents is a           *)
(* set_background call.                                                    *)
(***************************************************************************)
C17_OnlySetBackgroundChangesBackground ==
    [][/\ (StepOf("draw") \/ StepOf("update_uniforms") \/ StepOf("should_draw"))
            => /\ renderer' = renderer
               /\ CurrentImage' = CurrentImage
               /\ gl'.textures = gl.textures
               /\ open_calls' = open_calls
               /\ warnings' = warnings
               /\ uploads' = uploads
               /\ loaded' = loaded
               /\ Count(calls', "TexImage2D") = 0
               /\ StepOf("should_draw") => last'.ret \in BOOLEAN
               /\ ~StepOf("should_draw") => last'.ret = ""
               /\ StepOf("draw") => gl'.error = gl.error
       /\ CurrentImage' # CurrentImage => StepOf("set_background")
       /\ (IsSome(renderer) /\ gl'.textures # gl.textures)
            => StepOf("set_background")]_vars

\* A draw after a successful load: the metadata and the pixels are still
\* those of the loaded image.
C17_Witness ==
    /\ last.op = "draw"
    /\ ncalls >= 2
    /\ IsSome(CurrentImage)
    /\ ~IsSentinel(Unwrap(CurrentImage))
    /\ IsSome(loaded)
    /\ TextureImage = Uploaded(Unwrap(loaded).image)

(***************************************************************************)
(* C18.  Once a renderer exists, every step keeps its vertex-array handle, *)
(* texture handle, program handle, uniform location and its 6-entry vertex *)
(* sequence (a quad with corners (-1,-1) and (1,1)), and allocates no      *)
(* vertex array, buffer, texture or program and leaves buffer contents and *)
(* attribute layout alone.  A successful set_background changes, of all    *)
(* textures, only the image of the renderer's own texture.                 *)
(***************************************************************************)
C18_ObjectsAllocatedOnce ==
    [][IsSome(renderer)
         => /\ IsSome(renderer')
            /\ Unwrap(renderer').vao = Unwrap(renderer).vao
            /\ Unwrap(renderer').texture = Unwrap(renderer).texture
            /\ Unwrap(renderer').program = Unwrap(renderer).program
            /\ Unwrap(renderer').u_size_info = Unwrap(renderer).u_size_info
            /\ Unwrap(renderer').vertices = Unwrap(renderer).vertices
            /\ Len(Unwrap(renderer).vertices) = 6
            /\ {<<v[1], v[2]>> : v \in Range(Unwrap(renderer).vertices)}
                 = {<<-1, -1>>, <<1, -1>>, <<1, 1>>, <<-1, 1>>}
            /\ gl'.vertex_arrays = gl.vertex_arrays
            /\ gl'.buffers = gl.buffers
            /\ DOMAIN gl'.textures = DOMAIN gl.textures
            /\ DOMAIN gl'.uniforms = DOMAIN gl.uniforms
            /\ gl'.buffer_data = gl.buffer_data
            /\ gl'.attribs = gl.attribs
            /\ (StepOf("set_background") /\ last'.ret = "loaded")
                 => gl'.textures =
                      [gl.textures EXCEPT ![Unwrap(renderer).texture].image =
                           Uploaded(Unwrap(loaded').image)]
            /\ ~(StepOf("set_background") /\ last'.ret = "loaded")
                 => gl'.textures = gl.textures]_vars

\* A second successful load, of another image: the texture handle is the one
\* new() allocated and its contents are the second image's.
C18_Witness ==
    /\ last.op = "set_background"
    /\ last.ret = "loaded"
    /\ uploads = 2
    /\ IsSome(renderer)
    /\ Unwrap(renderer).texture \in DOMAIN gl.textures
    /\ TextureImage = Uploaded(Unwrap(loaded).image)
    /\ Cardinality(DOMAIN gl.textures) = 2 + MaxForeign

(***************************************************************************)
(* C19.  In every reachable state where currentImage is present, the last  *)
(* image::open call was for its path, and either it is the failure         *)
(* sentinel (height 0, ratio 0) and that call failed, or that call         *)
(* succeeded, height >= 1 is the decoded image's height and ratio > 0 is   *)
(* its width over its height; height = 0 iff ratio = 0 iff that call       *)
(* failed.                                                                 *)
(***************************************************************************)
C19_NeverPartiallyConstructed ==
    IsSome(CurrentImage)
      => LET i == Unwrap(CurrentImage)
         IN /\ IsSome(last_open)
            /\ Unwrap(last_open).path = i.path
            /\ \/ /\ i = Sentinel(i.path)
                  /\ ~Unwrap(last_open).ok
               \/ /\ Unwrap(last_open).ok
                  /\ IsSome(loaded)
                  /\ Unwrap(loaded).path = i.path
                  /\ i.height = Unwrap(loaded).image.height
                  /\ i.height >= 1
                  /\ i.ratio = Rat(Unwrap(loaded).image.width,
                                   Unwrap(loaded).image.height)
                  /\ i.ratio[1] > 0 /\ i.ratio[2] > 0
            /\ (i.height = 0) <=> IsZero(i.ratio)
            /\ (i.height = 0) <=> ~Unwrap(last_open).ok

\* The sentinel recorded for the path that had decoded successfully before:
\* p loads, another path fails, then p fails.
C19_Witness ==
    /\ IsSome(CurrentImage)
    /\ IsSentinel(Unwrap(CurrentImage))
    /\ IsSome(loaded)
    /\ Unwrap(loaded).path = Unwrap(CurrentImage).path
    /\ open_calls = 3
    /\ Unwrap(last_open) = [path |-> Unwrap(CurrentImage).path, ok |-> FALSE]

(***************************************************************************)
(* C20.  Every set_background(p) step, whether it decodes, fails or is     *)
(* answered by the cache, ends with currentImage present and recording p,  *)
(* and a successful one ends with the 2D texture binding 0; every other    *)
(* step leaves currentImage as it is, so the recorded path is always the   *)
(* argument of the most recent set_background call.                        *)
(***************************************************************************)
C20_RecordedPathIsLastRequest ==
    [][/\ StepOf("set_background")
            => /\ IsSome(CurrentImage')
               /\ LastPathRecorded'
               /\ last'.ret \in {"cached", "loaded"} \cup ImageErrors
               /\ last'.ret = "loaded" => gl'.texture_2d = 0
       /\ ~StepOf("set_background") => CurrentImage' = CurrentImage]_vars

\* A successful load entered with another renderer's texture bound, replacing
\* the record of another path.
C20_Witness ==
    /\ last.op = "set_background"
    /\ last.ret = "loaded"
    /\ set_calls >= 2
    /\ LastPathRecorded
    /\ calls[1].at.texture_2d \in ForeignNames
    /\ gl.texture_2d = 0

====
